---------------------------- MODULE Spec2Model ----------------------------
(***************************************************************************)
(* Model of rrsa/src/maths.rs: the arithmetic toolkit of the RSA project.  *)
(*                                                                         *)
(* Every function of the file is a small sequential program.  One         *)
(* behaviour of the model is one call: the initial state holds the        *)
(* arguments and the locals as they are after the function's prologue,    *)
(* each action is one loop iteration or one return, and pc names the      *)
(* place in the source.  The frame of a function (its arguments and       *)
(* locals, under the names of the source) is a record; the frames of the  *)
(* functions that are not running are NoFrame.                            *)
(***************************************************************************)
EXTENDS Integers, Sequences, FiniteSets

VARIABLES
    pc,             \* place in the running function
    ret,            \* value returned ("none" until the function returns)
    expl_f,         \* frame of NumUtil::expl_f / expl_r
    rejoin,         \* frame of <Vec<BigUint> as VecNumUtil>::rejoin
    rejoin_u8,      \* frame of <Vec<u8> as VecNumUtil>::rejoin
    fmodpow,        \* frame of fmodpow
    euclide,        \* frame of euclide
    expcode,        \* frame of expcode
    isprime,        \* frame of isprime
    rand_primelike  \* frame of rand_primelike

vars == <<pc, ret, expl_f, rejoin, rejoin_u8, fmodpow, euclide, expcode,
          isprime, rand_primelike>>

NoFrame == [idle |-> TRUE]
NoRet == "none"

-----------------------------------------------------------------------------
(* Bounds of the inputs.                                                   *)

MaxValue == 65800       \* expl_f: self in 0..MaxValue
MaxBlock == 2           \* expl_f: block_sz in 1..MaxBlock
MaxBytes == 2           \* Vec<u8>::rejoin: vectors of 0..MaxBytes bytes
MaxBase == 12           \* fmodpow: base in 0..MaxBase
MaxExp == 20            \* fmodpow: exp in 0..MaxExp
MaxNum == 12            \* fmodpow: num in 0..MaxNum
MaxEuclide == 20        \* euclide: a, b in -MaxEuclide..MaxEuclide
MaxCode == 2400         \* expcode: num in 0..MaxCode
MaxPrime == 100         \* isprime: num in 0..MaxPrime
MaxSzb == 1             \* rand_primelike: szb in 0..MaxSzb

ByteSamples == {0, 1, 128, 255}

-----------------------------------------------------------------------------
(* Arithmetic of the big integers.                                         *)

Abs(x) == IF x < 0 THEN -x ELSE x

RECURSIVE Pow(_, _)
Pow(x, k) == IF k = 0 THEN 1 ELSE x * Pow(x, k - 1)

\* BigInt division truncates toward zero.
TruncDiv(x, y) ==
    LET q == Abs(x) \div Abs(y)
    IN  IF (x < 0) # (y < 0) THEN -q ELSE q

\* The vector in reverse order.
Reverse(s) == [i \in 1..Len(s) |-> s[Len(s) + 1 - i]]

-----------------------------------------------------------------------------
(* NumUtil: sz, sz_b, expl_f.                                              *)

\* Number of digits of n in base radix: the length of to_str_radix(radix),
\* which writes zero as "0".
RECURSIVE sz(_, _)
sz(n, radix) == IF n < radix THEN 1 ELSE 1 + sz(n \div radix, radix)

sz_b(n) == (sz(n, 16) + 1) \div 2

InitExpl ==
    /\ pc = "expl_loop"
    /\ ret = NoRet
    /\ \E self \in 0..MaxValue, block_sz \in 1..MaxBlock :
          expl_f = [self |-> self, block_sz |-> block_sz,
                    m |-> Pow(2, block_sz * 8), op |-> self, buf |-> <<>>]
    /\ rejoin = NoFrame
    /\ rejoin_u8 = NoFrame
    /\ fmodpow = NoFrame
    /\ euclide = NoFrame
    /\ expcode = NoFrame
    /\ isprime = NoFrame
    /\ rand_primelike = NoFrame

\* One iteration of "while !op.is_zero()".
ExplLoop ==
    /\ pc = "expl_loop"
    /\ expl_f.op # 0
    /\ expl_f' = [expl_f EXCEPT !.buf = Append(@, expl_f.op % expl_f.m),
                                !.op = @ \div expl_f.m]
    /\ UNCHANGED <<pc, ret, rejoin, rejoin_u8, fmodpow, euclide, expcode,
                   isprime, rand_primelike>>

\* The loop is left, buf is reversed and expl_r hands it to its caller, which
\* calls rejoin on it.
ExplReverse ==
    /\ pc = "expl_loop"
    /\ expl_f.op = 0
    /\ expl_f' = [expl_f EXCEPT !.buf = Reverse(@)]
    /\ rejoin' = [self |-> Reverse(expl_f.buf), b |-> 0, i |-> 1]
    /\ pc' = "rejoin_check"
    /\ UNCHANGED <<ret, rejoin_u8, fmodpow, euclide, expcode, isprime,
                   rand_primelike>>

-----------------------------------------------------------------------------
(* VecNumUtil for Vec<BigUint>.                                            *)

\* rejoin without the test of the empty vector.
RejoinIsEmptyNever(self) == FALSE

RejoinIsEmpty(self) == Len(self) = 0

RejoinMult(part) == Pow(2, sz_b(part) * 8)

RejoinPanic ==
    /\ pc = "rejoin_check"
    /\ RejoinIsEmpty(rejoin.self)
    /\ pc' = "rejoin_panic"
    /\ UNCHANGED <<ret, expl_f, rejoin, rejoin_u8, fmodpow, euclide, expcode,
                   isprime, rand_primelike>>

RejoinEnter ==
    /\ pc = "rejoin_check"
    /\ ~RejoinIsEmpty(rejoin.self)
    /\ pc' = "rejoin_loop"
    /\ UNCHANGED <<ret, expl_f, rejoin, rejoin_u8, fmodpow, euclide, expcode,
                   isprime, rand_primelike>>

\* One iteration of "for part in self".
RejoinLoop ==
    /\ pc = "rejoin_loop"
    /\ rejoin.i <= Len(rejoin.self)
    /\ LET part == rejoin.self[rejoin.i]
       IN  rejoin' = [rejoin EXCEPT !.b = @ * RejoinMult(part) + part,
                                    !.i = @ + 1]
    /\ UNCHANGED <<pc, ret, expl_f, rejoin_u8, fmodpow, euclide, expcode,
                   isprime, rand_primelike>>

RejoinReturn ==
    /\ pc = "rejoin_loop"
    /\ rejoin.i > Len(rejoin.self)
    /\ ret' = rejoin.b
    /\ pc' = "rejoin_done"
    /\ UNCHANGED <<expl_f, rejoin, rejoin_u8, fmodpow, euclide, expcode,
                   isprime, rand_primelike>>

-----------------------------------------------------------------------------
(* VecNumUtil for Vec<u8>.                                                 *)

ByteVectors ==
    UNION {[1..n -> ByteSamples] : n \in 0..MaxBytes}

InitRejoinU8 ==
    /\ pc = "rejoin_u8_check"
    /\ ret = NoRet
    /\ \E self \in ByteVectors :
          rejoin_u8 = [self |-> self, b |-> 0, mult |-> Pow(2, 8), i |-> 1]
    /\ expl_f = NoFrame
    /\ rejoin = NoFrame
    /\ fmodpow = NoFrame
    /\ euclide = NoFrame
    /\ expcode = NoFrame
    /\ isprime = NoFrame
    /\ rand_primelike = NoFrame

RejoinU8IsEmpty(self) == Len(self) = 0

RejoinU8Panic ==
    /\ pc = "rejoin_u8_check"
    /\ RejoinU8IsEmpty(rejoin_u8.self)
    /\ pc' = "rejoin_u8_panic"
    /\ UNCHANGED <<ret, expl_f, rejoin, rejoin_u8, fmodpow, euclide, expcode,
                   isprime, rand_primelike>>

RejoinU8Enter ==
    /\ pc = "rejoin_u8_check"
    /\ ~RejoinU8IsEmpty(rejoin_u8.self)
    /\ pc' = "rejoin_u8_loop"
    /\ UNCHANGED <<ret, expl_f, rejoin, rejoin_u8, fmodpow, euclide, expcode,
                   isprime, rand_primelike>>

RejoinU8Loop ==
    /\ pc = "rejoin_u8_loop"
    /\ rejoin_u8.i <= Len(rejoin_u8.self)
    /\ LET part == rejoin_u8.self[rejoin_u8.i]
       IN  rejoin_u8' = [rejoin_u8 EXCEPT !.b = @ * rejoin_u8.mult + part,
                                          !.i = @ + 1]
    /\ UNCHANGED <<pc, ret, expl_f, rejoin, fmodpow, euclide, expcode,
                   isprime, rand_primelike>>

RejoinU8Return ==
    /\ pc = "rejoin_u8_loop"
    /\ rejoin_u8.i > Len(rejoin_u8.self)
    /\ ret' = rejoin_u8.b
    /\ pc' = "rejoin_u8_done"
    /\ UNCHANGED <<expl_f, rejoin, rejoin_u8, fmodpow, euclide, expcode,
                   isprime, rand_primelike>>

InitBlocks == InitExpl \/ InitRejoinU8

NextBlocks ==
    \/ ExplLoop
    \/ ExplReverse
    \/ RejoinPanic
    \/ RejoinEnter
    \/ RejoinLoop
    \/ RejoinReturn
    \/ RejoinU8Panic
    \/ RejoinU8Enter
    \/ RejoinU8Loop
    \/ RejoinU8Return

SpecBlocks == InitBlocks /\ [][NextBlocks]_vars

-----------------------------------------------------------------------------
(* fmodpow.                                                                *)

FmodpowEntry(base, exp, num) ==
    [base |-> base, exp |-> exp, num |-> num,
     res |-> 1, exp_bin |-> exp, temp |-> base]

\* The body with the squaring moved before the multiplication.
FmodpowBodySquareFirst(f) ==
    LET r == f.exp_bin % 2
        sq == (f.temp * f.temp) % f.num
    IN  [f EXCEPT !.res = IF r = 1 THEN (f.res * sq) % f.num ELSE @,
                  !.exp_bin = @ \div 2,
                  !.temp = sq]

\* The body of "while !exp_bin.is_zero()", for num # 0.
FmodpowBody(f) ==
    LET r == f.exp_bin % 2
    IN  [f EXCEPT !.res = IF r = 1 THEN (f.res * f.temp) % f.num ELSE @,
                  !.exp_bin = @ \div 2,
                  !.temp = (f.temp * f.temp) % f.num]

\* The value fmodpow returns to a caller, for num # 0.
RECURSIVE FmodpowRun(_)
FmodpowRun(f) == IF f.exp_bin = 0 THEN f.res ELSE FmodpowRun(FmodpowBody(f))

InitFmodpow ==
    /\ pc = "fmodpow_loop"
    /\ ret = NoRet
    /\ \E base \in 0..MaxBase, exp \in 0..MaxExp, num \in 0..MaxNum :
          fmodpow = FmodpowEntry(base, exp, num)
    /\ expl_f = NoFrame
    /\ rejoin = NoFrame
    /\ rejoin_u8 = NoFrame
    /\ euclide = NoFrame
    /\ expcode = NoFrame
    /\ isprime = NoFrame
    /\ rand_primelike = NoFrame

FmodpowLoop ==
    /\ pc = "fmodpow_loop"
    /\ fmodpow.exp_bin # 0
    /\ fmodpow.num # 0
    /\ fmodpow' = FmodpowBody(fmodpow)
    /\ UNCHANGED <<pc, ret, expl_f, rejoin, rejoin_u8, euclide, expcode,
                   isprime, rand_primelike>>

\* A remainder by a zero modulus panics in the first iteration.
FmodpowPanic ==
    /\ pc = "fmodpow_loop"
    /\ fmodpow.exp_bin # 0
    /\ fmodpow.num = 0
    /\ pc' = "fmodpow_panic"
    /\ UNCHANGED <<ret, expl_f, rejoin, rejoin_u8, fmodpow, euclide, expcode,
                   isprime, rand_primelike>>

FmodpowReturn ==
    /\ pc = "fmodpow_loop"
    /\ fmodpow.exp_bin = 0
    /\ ret' = fmodpow.res
    /\ pc' = "fmodpow_done"
    /\ UNCHANGED <<expl_f, rejoin, rejoin_u8, fmodpow, euclide, expcode,
                   isprime, rand_primelike>>

NextFmodpow == FmodpowLoop \/ FmodpowPanic \/ FmodpowReturn

SpecFmodpow == InitFmodpow /\ [][NextFmodpow]_vars

-----------------------------------------------------------------------------
(* euclide.                                                                *)

EuclideEntry(a, b) ==
    [a |-> a, b |-> b, r1 |-> a, r2 |-> b,
     u1 |-> 1, u2 |-> 0, v1 |-> 1, v2 |-> 0]

\* The body with the remainder added instead of subtracted.
EuclideBodyPlus(f) ==
    LET q == TruncDiv(f.r1, f.r2)
        r3 == f.r1
        u3 == f.u1
        v3 == f.v1
    IN  [f EXCEPT !.r1 = f.r2, !.u1 = f.u2, !.v1 = f.v2,
                  !.r2 = r3 + q * f.r2,
                  !.u2 = u3 - q * f.u2,
                  !.v2 = v3 - q * f.v2]

\* The body of "while !r2.is_zero()".
EuclideBody(f) ==
    LET q == TruncDiv(f.r1, f.r2)
        r3 == f.r1
        u3 == f.u1
        v3 == f.v1
    IN  [f EXCEPT !.r1 = f.r2, !.u1 = f.u2, !.v1 = f.v2,
                  !.r2 = r3 - q * f.r2,
                  !.u2 = u3 - q * f.u2,
                  !.v2 = v3 - q * f.v2]

InitEuclide ==
    /\ pc = "euclide_loop"
    /\ ret = NoRet
    /\ \E a \in -MaxEuclide..MaxEuclide, b \in -MaxEuclide..MaxEuclide :
          euclide = EuclideEntry(a, b)
    /\ expl_f = NoFrame
    /\ rejoin = NoFrame
    /\ rejoin_u8 = NoFrame
    /\ fmodpow = NoFrame
    /\ expcode = NoFrame
    /\ isprime = NoFrame
    /\ rand_primelike = NoFrame

EuclideLoop ==
    /\ pc = "euclide_loop"
    /\ euclide.r2 # 0
    /\ euclide' = EuclideBody(euclide)
    /\ UNCHANGED <<pc, ret, expl_f, rejoin, rejoin_u8, fmodpow, expcode,
                   isprime, rand_primelike>>

EuclideReturn ==
    /\ pc = "euclide_loop"
    /\ euclide.r2 = 0
    /\ ret' = euclide.u1
    /\ pc' = "euclide_done"
    /\ UNCHANGED <<expl_f, rejoin, rejoin_u8, fmodpow, euclide, expcode,
                   isprime, rand_primelike>>

NextEuclide == EuclideLoop \/ EuclideReturn

\* The function is sequential code that runs to completion: a step that is
\* possible is taken.
SpecEuclide == InitEuclide /\ [][NextEuclide]_vars /\ WF_vars(NextEuclide)

-----------------------------------------------------------------------------
(* expcode.                                                                *)

EXPCODE_TAB ==
    <<2, 3, 5, 7, 11, 13, 17, 19, 23, 29, 31, 37, 41, 43, 47, 53, 59, 61, 67,
      71, 73, 79, 83, 89, 97, 101, 103, 107, 109, 113, 127, 131, 137, 139,
      149>>

\* Option<BigUint>.
Some(x) == <<x>>
None == <<>>

\* The test without its negation.
ExpcodeHitDivides(num, i) == num % i = 0

\* The test of "if !(num % i).is_zero()".
ExpcodeHit(num, i) == num % i # 0

InitExpcode ==
    /\ pc = "expcode_loop"
    /\ ret = NoRet
    /\ \E num \in 0..MaxCode : expcode = [num |-> num, k |-> 1]
    /\ expl_f = NoFrame
    /\ rejoin = NoFrame
    /\ rejoin_u8 = NoFrame
    /\ fmodpow = NoFrame
    /\ euclide = NoFrame
    /\ isprime = NoFrame
    /\ rand_primelike = NoFrame

\* The iterator yields EXPCODE_TAB[k], which divides num.
ExpcodeNext ==
    /\ pc = "expcode_loop"
    /\ expcode.k <= Len(EXPCODE_TAB)
    /\ ~ExpcodeHit(expcode.num, EXPCODE_TAB[expcode.k])
    /\ expcode' = [expcode EXCEPT !.k = @ + 1]
    /\ UNCHANGED <<pc, ret, expl_f, rejoin, rejoin_u8, fmodpow, euclide,
                   isprime, rand_primelike>>

ExpcodeSome ==
    /\ pc = "expcode_loop"
    /\ expcode.k <= Len(EXPCODE_TAB)
    /\ ExpcodeHit(expcode.num, EXPCODE_TAB[expcode.k])
    /\ ret' = Some(EXPCODE_TAB[expcode.k])
    /\ pc' = "expcode_done"
    /\ UNCHANGED <<expl_f, rejoin, rejoin_u8, fmodpow, euclide, expcode,
                   isprime, rand_primelike>>

ExpcodeNone ==
    /\ pc = "expcode_loop"
    /\ expcode.k > Len(EXPCODE_TAB)
    /\ ret' = None
    /\ pc' = "expcode_done"
    /\ UNCHANGED <<expl_f, rejoin, rejoin_u8, fmodpow, euclide, expcode,
                   isprime, rand_primelike>>

NextExpcode == ExpcodeNext \/ ExpcodeSome \/ ExpcodeNone

SpecExpcode == InitExpcode /\ [][NextExpcode]_vars

-----------------------------------------------------------------------------
(* isprime.                                                                *)

PRIME_RN == 12737213
PRIME_ROUNDS == 20

\* The test of one round: "!fmodpow(&(&PRIME_RN % num), &(num - 1u8), num)
\* .is_one()", for num # 0.
IsprimeRoundFails(num) ==
    FmodpowRun(FmodpowEntry(PRIME_RN % num, num - 1, num)) # 1

InitIsprime ==
    /\ pc = "isprime_loop"
    /\ ret = NoRet
    /\ \E num \in 0..MaxPrime : isprime = [num |-> num, round |-> 0]
    /\ expl_f = NoFrame
    /\ rejoin = NoFrame
    /\ rejoin_u8 = NoFrame
    /\ fmodpow = NoFrame
    /\ euclide = NoFrame
    /\ expcode = NoFrame
    /\ rand_primelike = NoFrame

\* PRIME_RN % num panics for num = 0, in the first round.
IsprimePanic ==
    /\ pc = "isprime_loop"
    /\ isprime.round < PRIME_ROUNDS
    /\ isprime.num = 0
    /\ pc' = "isprime_panic"
    /\ UNCHANGED <<ret, expl_f, rejoin, rejoin_u8, fmodpow, euclide, expcode,
                   isprime, rand_primelike>>

IsprimeRound ==
    /\ pc = "isprime_loop"
    /\ isprime.round < PRIME_ROUNDS
    /\ isprime.num # 0
    /\ ~IsprimeRoundFails(isprime.num)
    /\ isprime' = [isprime EXCEPT !.round = @ + 1]
    /\ UNCHANGED <<pc, ret, expl_f, rejoin, rejoin_u8, fmodpow, euclide,
                   expcode, rand_primelike>>

IsprimeFalse ==
    /\ pc = "isprime_loop"
    /\ isprime.round < PRIME_ROUNDS
    /\ isprime.num # 0
    /\ IsprimeRoundFails(isprime.num)
    /\ ret' = FALSE
    /\ pc' = "isprime_done"
    /\ UNCHANGED <<expl_f, rejoin, rejoin_u8, fmodpow, euclide, expcode,
                   isprime, rand_primelike>>

IsprimeTrue ==
    /\ pc = "isprime_loop"
    /\ isprime.round = PRIME_ROUNDS
    /\ ret' = TRUE
    /\ pc' = "isprime_done"
    /\ UNCHANGED <<expl_f, rejoin, rejoin_u8, fmodpow, euclide, expcode,
                   isprime, rand_primelike>>

NextIsprime == IsprimePanic \/ IsprimeRound \/ IsprimeFalse \/ IsprimeTrue

SpecIsprime == InitIsprime /\ [][NextIsprime]_vars

-----------------------------------------------------------------------------
(* rand_primelike.                                                         *)

\* The values gen_biguint(bits) can return.
GenBiguint(bits) == 0..(Pow(2, bits) - 1)

\* The values gen_range(1..10) can return.
GenDigit == 1..9

\* The condition without the test of 5.
DigitRejectedEven(digit) == digit % 2 = 0

\* The condition of "while digit % 2 == 0 || digit == 5".
DigitRejected(digit) == digit % 2 = 0 \/ digit = 5

InitRand ==
    /\ pc = "rand_draw"
    /\ ret = NoRet
    /\ \E szb \in 0..MaxSzb : rand_primelike = [szb |-> szb, b |-> 0, digit |-> 0]
    /\ expl_f = NoFrame
    /\ rejoin = NoFrame
    /\ rejoin_u8 = NoFrame
    /\ fmodpow = NoFrame
    /\ euclide = NoFrame
    /\ expcode = NoFrame
    /\ isprime = NoFrame

RandDraw ==
    /\ pc = "rand_draw"
    /\ \E x \in GenBiguint(rand_primelike.szb * 8) :
          rand_primelike' = [rand_primelike EXCEPT !.b = x]
    /\ pc' = "rand_round"
    /\ UNCHANGED <<ret, expl_f, rejoin, rejoin_u8, fmodpow, euclide, expcode,
                   isprime>>

\* "b /= 10; b *= 10; let mut digit = 0".
RandRound ==
    /\ pc = "rand_round"
    /\ rand_primelike' = [rand_primelike EXCEPT !.b = (@ \div 10) * 10,
                                                !.digit = 0]
    /\ pc' = "rand_digit"
    /\ UNCHANGED <<ret, expl_f, rejoin, rejoin_u8, fmodpow, euclide, expcode,
                   isprime>>

RandDigit ==
    /\ pc = "rand_digit"
    /\ DigitRejected(rand_primelike.digit)
    /\ \E d \in GenDigit : rand_primelike' = [rand_primelike EXCEPT !.digit = d]
    /\ UNCHANGED <<pc, ret, expl_f, rejoin, rejoin_u8, fmodpow, euclide,
                   expcode, isprime>>

RandReturn ==
    /\ pc = "rand_digit"
    /\ ~DigitRejected(rand_primelike.digit)
    /\ rand_primelike' = [rand_primelike EXCEPT !.b = @ + rand_primelike.digit]
    /\ ret' = rand_primelike.b + rand_primelike.digit
    /\ pc' = "rand_done"
    /\ UNCHANGED <<expl_f, rejoin, rejoin_u8, fmodpow, euclide, expcode,
                   isprime>>

NextRand == RandDraw \/ RandRound \/ RandDigit \/ RandReturn

SpecRand == InitRand /\ [][NextRand]_vars

-----------------------------------------------------------------------------
(* The whole file: one call of any of its functions.                       *)

Init ==
    \/ InitBlocks
    \/ InitFmodpow
    \/ InitEuclide
    \/ InitExpcode
    \/ InitIsprime
    \/ InitRand

Next ==
    \/ NextBlocks
    \/ NextFmodpow
    \/ NextEuclide
    \/ NextExpcode
    \/ NextIsprime
    \/ NextRand

Spec == Init /\ [][Next]_vars

-----------------------------------------------------------------------------
(* Mathematical notions the properties are stated with.                    *)

RECURSIVE GCD(_, _)
GCD(x, y) == IF y = 0 THEN x ELSE GCD(y, x % y)

IsPrimeNumber(n) == n >= 2 /\ \A d \in 2..(n - 1) : n % d # 0

\* x^e modulo n, by e multiplications.
RECURSIVE PowMod(_, _, _)
PowMod(x, e, n) ==
    IF e = 0 THEN 1 % n ELSE ((x % n) * PowMod(x, e - 1, n)) % n

Min(S) == CHOOSE x \in S : \A y \in S : x <= y

-----------------------------------------------------------------------------
(* Properties.                                                             *)

\* C1: for every value v > 0 and every block size b >= 1, rejoin applied to
\* the chunks expl_r(v, b) returns v.
ExplRejoinRoundTrip ==
    (pc = "rejoin_done" /\ expl_f.self > 0) => ret = expl_f.self

\* C2: euclide(a, b) returns u such that a*u + b*v = gcd(a, b) for some
\* integer v, gcd being the non-negative greatest common divisor; and when
\* gcd(a, b) = 1 and b > 1, (a*u) mod b = 1.
EuclideBezout ==
    pc = "euclide_done" =>
        LET a == euclide.a
            b == euclide.b
            g == GCD(Abs(a), Abs(b))
            V == MaxEuclide * MaxEuclide + MaxEuclide
        IN  /\ \E v \in -V..V : a * ret + b * v = g
            /\ (g = 1 /\ b > 1) => (a * ret) % b = 1

\* C3: isprime returns true for every prime number.
IsprimeAcceptsPrimes ==
    (pc = "isprime_done" /\ IsPrimeNumber(isprime.num)) => ret = TRUE

\* C4: for every base and every modulus n > 0, fmodpow(base, 0, n) equals
\* 1 mod n.
FmodpowZeroExponent ==
    (pc = "fmodpow_done" /\ fmodpow.exp = 0 /\ fmodpow.num > 0)
        => ret = 1 % fmodpow.num

\* C5: the table holds the 35 primes of 2..149 in ascending order; expcode(n)
\* returns the smallest prime of the table that does not divide n, and None
\* if and only if every prime of the table divides n.
ExpcodeFirstNonDivisor ==
    /\ Len(EXPCODE_TAB) = 35
    /\ \A k \in 1..(Len(EXPCODE_TAB) - 1) : EXPCODE_TAB[k] < EXPCODE_TAB[k + 1]
    /\ {EXPCODE_TAB[k] : k \in 1..Len(EXPCODE_TAB)}
          = {p \in 2..149 : IsPrimeNumber(p)}
    /\ pc = "expcode_done" =>
          LET nd == {p \in {EXPCODE_TAB[k] : k \in 1..Len(EXPCODE_TAB)} :
                        expcode.num % p # 0}
          IN  /\ ret = None <=> nd = {}
              /\ nd # {} => ret = Some(Min(nd))

ExpcodeWitness ==
    /\ pc = "expcode_done"
    /\ expcode.num > 0
    /\ ret = Some(11)

\* C6: the value rand_primelike returns ends in the decimal digit 1, 3, 7
\* or 9, so neither 2 nor 5 divides it.
RandLastDigit ==
    pc = "rand_done" =>
        /\ ret % 10 \in {1, 3, 7, 9}
        /\ ret % 2 # 0
        /\ ret % 5 # 0

RandLastDigitWitness ==
    /\ pc = "rand_done"
    /\ rand_primelike.szb >= 1
    /\ ret >= 100
    /\ ret % 10 = 7

\* C7: expl_r(0, b) is the empty vector; rejoin of an empty vector, of
\* BigUint or of u8, panics and returns nothing; so rejoin(expl_r(0, b))
\* always panics.
EmptyRejoinPanics ==
    /\ (pc = "rejoin_check" /\ expl_f.self = 0) =>
          /\ rejoin.self = <<>>
          /\ ENABLED RejoinPanic
          /\ ~ENABLED RejoinEnter
    /\ pc \in {"rejoin_loop", "rejoin_done"} =>
          /\ Len(rejoin.self) > 0
          /\ expl_f.self # 0
    /\ pc = "rejoin_panic" => ret = NoRet
    /\ (pc = "rejoin_u8_check" /\ Len(rejoin_u8.self) = 0) =>
          /\ ENABLED RejoinU8Panic
          /\ ~ENABLED RejoinU8Enter
    /\ pc \in {"rejoin_u8_loop", "rejoin_u8_done"} => Len(rejoin_u8.self) > 0
    /\ pc = "rejoin_u8_panic" => ret = NoRet

EmptyRejoinWitness ==
    /\ pc = "rejoin_panic"
    /\ expl_f.self = 0
    /\ expl_f.buf = <<>>

\* C8: the value rand_primelike(szb) returns fits in szb bytes: it is less
\* than 2^(8*szb).
RandFitsSize ==
    pc = "rand_done" => ret < Pow(2, 8 * rand_primelike.szb)

\* C9: euclide terminates for all signed a and b: every iteration of its
\* loop strictly decreases the absolute value of r2, and the function
\* returns.
EuclideTerminates ==
    /\ [][EuclideLoop => Abs(euclide'.r2) < Abs(euclide.r2)]_vars
    /\ <>(pc = "euclide_done")

EuclideTerminatesWitness ==
    /\ pc = "euclide_done"
    /\ euclide.a < 0
    /\ euclide.b > 0
    /\ Abs(euclide.a) < Abs(euclide.b)
    /\ Abs(euclide.r1) = 1
    /\ euclide.u1 > 1

\* C10: at the head of the loop of fmodpow, for num > 0,
\* res * temp^exp_bin is congruent to base^exp modulo num; so the value
\* returned is congruent to base^exp modulo num, and it is less than num
\* when exp >= 1.
FmodpowLoopInvariant ==
    /\ (pc = "fmodpow_loop" /\ fmodpow.num > 0) =>
          (fmodpow.res * PowMod(fmodpow.temp, fmodpow.exp_bin, fmodpow.num))
              % fmodpow.num
          = PowMod(fmodpow.base, fmodpow.exp, fmodpow.num)
    /\ (pc = "fmodpow_done" /\ fmodpow.num > 0) =>
          /\ fmodpow.exp_bin = 0
          /\ ret % fmodpow.num
                = PowMod(fmodpow.base, fmodpow.exp, fmodpow.num)
          /\ fmodpow.exp >= 1 => ret < fmodpow.num

FmodpowLoopWitness ==
    /\ pc = "fmodpow_done"
    /\ fmodpow.exp >= 5
    /\ fmodpow.base >= 2
    /\ fmodpow.num >= 5
    /\ ret >= 2

=============================================================================
